---------------------------- MODULE Spec2Model ----------------------------
(***************************************************************************)
(* PR status check notifier: check aggregation, notification              *)
(* deduplication, merge gate and poll driver.                              *)
(*                                                                         *)
(* The repository holds several prototype variants of the same flow:       *)
(*   "status_comment"  src/src/index.js 1-222   (getCurrentStatus,         *)
(*                     updateStatusComment, notifySuccess, run)            *)
(*   "polling"         src/src/index.js 223-425 (checkStatus, run)         *)
(*   "single_shot"     src/unnamed/part_000     (run)                      *)
(*   "poll_loop"       src/unnamed/part_001     (checkStatus, run)         *)
(* and the session store src/src/notificationStore.js.  The functions      *)
(* createComment, hasExistingComment and isPRMergeable are exercised by    *)
(* src/__tests__/index.test.js but their bodies are not part of the        *)
(* sources; they are modelled from sections 4.4 and 4.5 of the             *)
(* specification.                                                          *)
(***************************************************************************)
EXTENDS Integers, Sequences, FiniteSets, TLC

(***************************************************************************)
(* Bounds of the model.                                                    *)
(***************************************************************************)
\* timeout budget of a polling run, in poll intervals
TimeoutTicks == 1
\* reviews listed for one pull request
MaxReviews == 2
\* comments on the pull requests, all together
MaxComments == 2
\* raw checks reported for one head commit, where the verdict is examined
MaxChecks == 2

(***************************************************************************)
(* JavaScript values and string primitives.                                *)
(***************************************************************************)
Undefined == "<undefined>"
Null == "<null>"

UpperChars == "ABCDEFGHIJKLMNOPQRSTUVWXYZ"
LowerChars == "abcdefghijklmnopqrstuvwxyz"
WhiteSpace == {" ", "\t", "\n", "\r"}

CharAt(s, i) == SubSeq(s, i, i)

\* String.prototype.includes
Includes(s, sub) ==
  \E i \in 1..(Len(s) - Len(sub) + 1) : SubSeq(s, i, i + Len(sub) - 1) = sub

\* upper-case letter -> lower-case letter
LowerOf ==
  LET upper == {CharAt(UpperChars, i) : i \in 1..26}
  IN  [c \in upper |->
         CharAt(LowerChars, CHOOSE i \in 1..26 : CharAt(UpperChars, i) = c)]

LowerChar(c) == IF c \in DOMAIN LowerOf THEN LowerOf[c] ELSE c

RECURSIVE ToLowerCase(_)
\* String.prototype.toLowerCase
ToLowerCase(s) ==
  IF Len(s) = 0 THEN ""
  ELSE LowerChar(CharAt(s, 1)) \o ToLowerCase(SubSeq(s, 2, Len(s)))

RECURSIVE TrimStart(_)
TrimStart(s) ==
  IF Len(s) > 0 /\ CharAt(s, 1) \in WhiteSpace
  THEN TrimStart(SubSeq(s, 2, Len(s)))
  ELSE s

RECURSIVE TrimEnd(_)
TrimEnd(s) ==
  IF Len(s) > 0 /\ CharAt(s, Len(s)) \in WhiteSpace
  THEN TrimEnd(SubSeq(s, 1, Len(s) - 1))
  ELSE s

\* String.prototype.trim
Trim(s) == TrimEnd(TrimStart(s))

\* String.prototype.replace with a string pattern: first occurrence only
Replace(s, pat, rep) ==
  IF ~Includes(s, pat) THEN s
  ELSE LET occ == {i \in 1..(Len(s) - Len(pat) + 1) :
                       SubSeq(s, i, i + Len(pat) - 1) = pat}
           first == CHOOSE i \in occ : \A j \in occ : i <= j
       IN SubSeq(s, 1, first - 1) \o rep
            \o SubSeq(s, first + Len(pat), Len(s))

(***************************************************************************)
(* Raw checks: legacy status contexts and check runs, told apart by the    *)
(* presence of a conclusion field.                                         *)
(***************************************************************************)
StatusCheck(context, state) ==
  [isCheckRun |-> FALSE, name |-> Undefined, context |-> context,
   status |-> Undefined, conclusion |-> Undefined, state |-> state]

CheckRun(name, status, conclusion) ==
  [isCheckRun |-> TRUE, name |-> name, context |-> Undefined,
   status |-> status, conclusion |-> conclusion, state |-> Undefined]

successfulConclusions == {"success", "skipped", "neutral"}

\* check.name || check.context
checkName(check) ==
  IF check.name # Undefined /\ check.name # "" THEN check.name
  ELSE check.context

\* mutant: a pattern excludes only the check whose whole name it is
isExcludedExactMatch(check, excludedChecks) ==
  LET n == checkName(check)
  IN  /\ n # Undefined
      /\ \E i \in DOMAIN excludedChecks :
            ToLowerCase(n) = ToLowerCase(excludedChecks[i])

\* the filter callback negated: some excluded pattern is a case-insensitive
\* substring of the name; checkName?.toLowerCase() of a missing name is
\* undefined, which is falsy
isExcluded(check, excludedChecks) ==
  LET n == checkName(check)
  IN  /\ n # Undefined
      /\ \E i \in DOMAIN excludedChecks :
            Includes(ToLowerCase(n), ToLowerCase(excludedChecks[i]))

relevantChecks(allChecks, excludedChecks) ==
  LET keep(check) == ~isExcluded(check, excludedChecks)
  IN  SelectSeq(allChecks, keep)

\* mutant: the conclusion field is read also from a status context
checkConclusionFieldRunOnly(check) == check.conclusion

checkStatusField(check) == IF check.isCheckRun THEN check.status ELSE "completed"
checkConclusionField(check) ==
  IF check.isCheckRun THEN check.conclusion ELSE check.state

isPassed(check) ==
  /\ checkStatusField(check) = "completed"
  /\ checkConclusionField(check) \in successfulConclusions

\* mutant: only a null conclusion is pending
isPendingNullOnly(check) == checkConclusionField(check) = Null

isPending(check) ==
  \/ checkStatusField(check) # "completed"
  \/ checkConclusionField(check) = Null

\* the branch the classification loop takes for one check
classify(check) ==
  IF isPending(check) THEN "Pending"
  ELSE IF isPassed(check) THEN "Passed"
  ELSE "Failed"

\* mutant: the names of all the checks, whatever the test says
NamesWhereAll(cs, flags) == [i \in DOMAIN cs |-> checkName(cs[i])]

\* names of the checks of a list that satisfy a test, in list order
RECURSIVE NamesWhere(_, _)
NamesWhere(cs, flags) ==
  IF Len(cs) = 0 THEN <<>>
  ELSE (IF flags[1] THEN <<checkName(cs[1])>> ELSE <<>>)
         \o NamesWhere(Tail(cs), Tail(flags))

PendingFlags(cs) == [i \in DOMAIN cs |-> isPending(cs[i])]
\* mutant: only the conclusion success passes
PassedFlagsSuccessOnly(cs) ==
  [i \in DOMAIN cs |-> ~isPending(cs[i]) /\ checkConclusionField(cs[i]) = "success"]

PassedFlags(cs) == [i \in DOMAIN cs |-> ~isPending(cs[i]) /\ isPassed(cs[i])]
\* mutant: whatever did not pass is failed, pending or not
FailedFlagsNotPassed(cs) == [i \in DOMAIN cs |-> ~isPassed(cs[i])]

FailedFlags(cs) == [i \in DOMAIN cs |-> ~isPending(cs[i]) /\ ~isPassed(cs[i])]

\* mutant: the passed list takes every check that is not pending
getCurrentStatusPassedTakesFailed(allChecks, excludedChecks) ==
  LET rel == relevantChecks(allChecks, excludedChecks)
      pendingChecks == NamesWhere(rel, PendingFlags(rel))
      failedChecks == NamesWhere(rel, FailedFlags(rel))
      passedChecks == NamesWhere(rel, [i \in DOMAIN rel |-> ~isPending(rel[i])])
      allCompleted == Len(pendingChecks) = 0
  IN  [allCompleted |-> allCompleted,
       allPassed |-> allCompleted /\ Len(failedChecks) = 0
                       /\ Len(passedChecks) > 0,
       pendingChecks |-> pendingChecks,
       failedChecks |-> failedChecks,
       passedChecks |-> passedChecks,
       total |-> Len(rel)]

\* status-comment variant
getCurrentStatus(allChecks, excludedChecks) ==
  LET rel == relevantChecks(allChecks, excludedChecks)
      pendingChecks == NamesWhere(rel, PendingFlags(rel))
      failedChecks == NamesWhere(rel, FailedFlags(rel))
      passedChecks == NamesWhere(rel, PassedFlags(rel))
      allCompleted == Len(pendingChecks) = 0
  IN  [allCompleted |-> allCompleted,
       allPassed |-> allCompleted /\ Len(failedChecks) = 0
                       /\ Len(passedChecks) > 0,
       pendingChecks |-> pendingChecks,
       failedChecks |-> failedChecks,
       passedChecks |-> passedChecks,
       total |-> Len(rel)]

\* mutant: allPassed without the length test, so every() holds of no checks
checkStatusPollingVacuous(allChecks, excludedChecks) ==
  LET rel == relevantChecks(allChecks, excludedChecks)
      notPassedFlags == [i \in DOMAIN rel |-> ~isPending(rel[i]) /\ ~isPassed(rel[i])]
  IN  [allCompleted |-> ~\E i \in DOMAIN rel : isPending(rel[i]),
       allPassed |-> \A i \in DOMAIN rel : isPassed(rel[i]),
       pendingChecks |-> NamesWhere(rel, PendingFlags(rel)),
       failedChecks |-> NamesWhere(rel, notPassedFlags)]

\* polling variant
checkStatusPolling(allChecks, excludedChecks) ==
  LET rel == relevantChecks(allChecks, excludedChecks)
      notPassedFlags == [i \in DOMAIN rel |-> ~isPending(rel[i]) /\ ~isPassed(rel[i])]
  IN  [allCompleted |-> ~\E i \in DOMAIN rel : isPending(rel[i]),
       allPassed |-> Len(rel) > 0 /\ \A i \in DOMAIN rel : isPassed(rel[i]),
       pendingChecks |-> NamesWhere(rel, PendingFlags(rel)),
       failedChecks |-> NamesWhere(rel, notPassedFlags)]

\* mutant: the pending list is taken before the filter
checkStatusPendingBeforeFilter(allChecks, excludedChecks) ==
  LET rel == relevantChecks(allChecks, excludedChecks)
      pendingChecks == NamesWhere(allChecks, PendingFlags(allChecks))
      passedChecks == NamesWhere(rel, PassedFlags(rel))
      failedChecks == NamesWhere(rel, FailedFlags(rel))
  IN  [hasChecks |-> Len(rel) > 0,
       allCompleted |-> Len(pendingChecks) = 0,
       allPassed |-> Len(pendingChecks) = 0 /\ Len(failedChecks) = 0
                       /\ Len(passedChecks) > 0,
       pending |-> pendingChecks,
       failed |-> failedChecks,
       passed |-> passedChecks]

\* mutant: allPassed without the test of the passed list, hasChecks always true
checkStatusEmptyPasses(allChecks, excludedChecks) ==
  LET rel == relevantChecks(allChecks, excludedChecks)
      pendingChecks == NamesWhere(rel, PendingFlags(rel))
      passedChecks == NamesWhere(rel, PassedFlags(rel))
      failedChecks == NamesWhere(rel, FailedFlags(rel))
  IN  [hasChecks |-> TRUE,
       allCompleted |-> Len(pendingChecks) = 0,
       allPassed |-> Len(pendingChecks) = 0 /\ Len(failedChecks) = 0,
       pending |-> pendingChecks,
       failed |-> failedChecks,
       passed |-> passedChecks]

\* mutant: allPassed looks at the failed and passed lists only
checkStatusIgnoringPending(allChecks, excludedChecks) ==
  LET rel == relevantChecks(allChecks, excludedChecks)
      pendingChecks == NamesWhere(rel, PendingFlags(rel))
      passedChecks == NamesWhere(rel, PassedFlags(rel))
      failedChecks == NamesWhere(rel, FailedFlags(rel))
  IN  [hasChecks |-> Len(rel) > 0,
       allCompleted |-> Len(pendingChecks) = 0,
       allPassed |-> Len(failedChecks) = 0 /\ Len(passedChecks) > 0,
       pending |-> pendingChecks,
       failed |-> failedChecks,
       passed |-> passedChecks]

\* poll-loop variant
checkStatus(allChecks, excludedChecks) ==
  LET rel == relevantChecks(allChecks, excludedChecks)
      pendingChecks == NamesWhere(rel, PendingFlags(rel))
      passedChecks == NamesWhere(rel, PassedFlags(rel))
      failedChecks == NamesWhere(rel, FailedFlags(rel))
  IN  [hasChecks |-> Len(rel) > 0,
       allCompleted |-> Len(pendingChecks) = 0,
       allPassed |-> Len(pendingChecks) = 0 /\ Len(failedChecks) = 0
                       /\ Len(passedChecks) > 0,
       pending |-> pendingChecks,
       failed |-> failedChecks,
       passed |-> passedChecks]

\* mutant: a check run passes by its conclusion, whatever its status
isPassedSingleShotByConclusion(check) ==
  IF check.isCheckRun
  THEN check.conclusion \in successfulConclusions
  ELSE check.state \in successfulConclusions

\* single-shot variant: the every() callback
isPassedSingleShot(check) ==
  IF check.isCheckRun
  THEN check.status = "completed" /\ check.conclusion \in successfulConclusions
  ELSE check.state \in successfulConclusions

allPassedSingleShot(allChecks, excludedChecks) ==
  LET rel == relevantChecks(allChecks, excludedChecks)
  IN  Len(rel) > 0 /\ \A i \in DOMAIN rel : isPassedSingleShot(rel[i])


(***************************************************************************)
(* Configuration and inputs.                                               *)
(***************************************************************************)
STATUS_COMMENT_MARKER == "<!-- PR-STATUS-CHECK -->"
SuccessText == "All checks have passed!"

Variants == {"status_comment", "polling", "single_shot", "poll_loop"}
PollingVariants == {"polling", "poll_loop"}

\* pull requests of the repository, by number, with the author's login
PRs == {123, 456}
NoPR == 0
authorLogin(p) == IF p = 123 THEN "alice" ELSE "bob"
\* the PR whose head commit the events of the runs are about
EventPR == 123
\* context.actor: r1 is triggered by the author, r2 by somebody else
actor(r) == IF r = "r1" THEN "alice" ELSE "carol"

\* values of the notification-message input
Templates == {"@{user} All checks have passed!", "Ready for review, @{user}"}

\* values of the excluded-checks input
ExcludedInputs == {"atlantis/apply", ""}

RECURSIVE Split(_, _)
\* String.prototype.split with a one-character separator
Split(s, sep) ==
  IF ~Includes(s, sep) THEN <<s>>
  ELSE LET i == CHOOSE k \in 1..Len(s) :
                  /\ CharAt(s, k) = sep
                  /\ \A j \in 1..(k - 1) : CharAt(s, j) # sep
       IN  <<SubSeq(s, 1, i - 1)>> \o Split(SubSeq(s, i + 1, Len(s)), sep)

\* core.getInput('excluded-checks').split(',').map(s => s.trim())
parseExcludedTrim(input) ==
  LET parts == Split(input, ",")
  IN  [i \in DOMAIN parts |-> Trim(parts[i])]

\* core.getInput('excluded-checks').split(',').filter(Boolean)
parseExcludedFilter(input) ==
  LET nonEmpty(x) == x # ""
  IN  SelectSeq(Split(input, ","), nonEmpty)

parseExcluded(v, input) ==
  IF v = "poll_loop" THEN parseExcludedFilter(input) ELSE parseExcludedTrim(input)

\* check lists the hosting service may report for a head commit
CheckLists ==
  { <<>>,
    <<CheckRun("build", "completed", "success")>>,
    <<CheckRun("build", "in_progress", Null)>>,
    <<CheckRun("build", "completed", "failure")>>,
    <<CheckRun("Atlantis/Apply", "queued", Null)>>,
    <<StatusCheck("ci/status", "success"),
      CheckRun("atlantis/apply", "completed", "failure")>>,
    <<StatusCheck("ci/status", "pending"),
      CheckRun("build", "completed", "success")>>,
    <<CheckRun("build", "completed", "failure"),
      CheckRun("test", "queued", Null)>> }

\* the verdict of one evaluation, as the variant computes it
evaluate(v, allChecks, excludedChecks) ==
  CASE v = "status_comment" -> getCurrentStatus(allChecks, excludedChecks)
    [] v = "polling" -> checkStatusPolling(allChecks, excludedChecks)
    [] v = "poll_loop" -> checkStatus(allChecks, excludedChecks)
    [] OTHER -> [allPassed |-> allPassedSingleShot(allChecks, excludedChecks)]

\* notificationTemplate.replace('{user}', login)
renderMessage(template, login) == Replace(template, "{user}", login)


(***************************************************************************)
(* State.                                                                  *)
(***************************************************************************)
Runs == {"r1", "r2"}

VARIABLES
  comments,              \* hosting service: PR number -> comment bodies, oldest first
  checks,                \* hosting service: raw checks of the head commit of the event
  pulls,                 \* hosting service: PR number -> mergeability and reviews, oldest first
  variant,               \* which prototype of the flow is deployed
  notificationTemplate,  \* input notification-message
  excludedInput,         \* input excluded-checks
  pc,                    \* run -> position in run()
  runPr,                 \* run -> pr.number
  status,                \* run -> verdict of the latest evaluation
  evaluated,             \* run -> the relevant checks that verdict was computed from
  hasNotification,       \* run -> result of the scan of the listed comments
  existingComment,       \* run -> position of the status comment found, 0 if none
  hasNotified,           \* run -> flag of the poll loop
  elapsed,               \* run -> poll intervals slept since startTime
  outcome,               \* run -> how the run ended
  created,               \* history: PR number -> notification comments created
  overlap,               \* history: some run started while another was under way
  sendFailed,            \* history: run -> a create-comment request of the run has failed
  notifications,         \* notificationStore.notifications
  recorded,              \* history: (PR number, normalized message) pairs recorded in this process
  sentInProcess,         \* history: PR numbers a notification was created for in this process
  lastCall               \* history: the latest call of the deduplicator or gate, with what it did

runVars == <<variant, notificationTemplate, excludedInput, pc, runPr,
             status, evaluated, hasNotification, existingComment, hasNotified, elapsed,
             outcome, created, overlap, sendFailed>>
dedupVars == <<pulls, notifications, recorded, sentInProcess, lastCall>>
vars == <<comments, checks, runVars, dedupVars>>

NoCall == [op |-> "none"]
\* the verdict of a run that has not evaluated yet
NoStatus == [none |-> TRUE]

ReadyPull == [mergeable |-> TRUE, mergeable_state |-> "clean",
              reviews |-> <<[user |-> 7, state |-> "APPROVED"]>>]
NewPull == [mergeable |-> TRUE, mergeable_state |-> "clean", reviews |-> <<>>]

InitRemote ==
  /\ comments = [p \in PRs |-> <<>>]

InitRuns ==
  /\ pc = [r \in Runs |-> "init"]
  /\ runPr = [r \in Runs |-> NoPR]
  /\ status = [r \in Runs |-> NoStatus]
  /\ evaluated = [r \in Runs |-> <<>>]
  /\ hasNotification = [r \in Runs |-> FALSE]
  /\ existingComment = [r \in Runs |-> 0]
  /\ hasNotified = [r \in Runs |-> FALSE]
  /\ elapsed = [r \in Runs |-> 0]
  /\ outcome = [r \in Runs |-> "running"]
  /\ created = [p \in PRs |-> 0]
  /\ overlap = FALSE
  /\ sendFailed = [r \in Runs |-> FALSE]

InitStore ==
  /\ notifications = {}
  /\ recorded = {}
  /\ sentInProcess = {}
  /\ lastCall = NoCall

Init ==
  /\ InitRemote
  /\ InitRuns
  /\ InitStore
  /\ pulls = [p \in PRs |-> ReadyPull]
  /\ checks \in CheckLists
  /\ variant \in Variants
  /\ notificationTemplate \in Templates
  /\ excludedInput \in ExcludedInputs

(***************************************************************************)
(* run(): one invocation of the action.                                    *)
(***************************************************************************)
excludedChecks == parseExcluded(variant, excludedInput)

Finish(r, how) ==
  /\ pc' = [pc EXCEPT ![r] = "done"]
  /\ outcome' = [outcome EXCEPT ![r] = how]

Goto(r, where) ==
  /\ pc' = [pc EXCEPT ![r] = where]
  /\ UNCHANGED outcome

\* event context and PR lookup; p = NoPR: the event carries no PR number and
\* no open PR matches the SHA
RunStart(r) ==
  /\ pc[r] = "init"
  /\ \E p \in {EventPR, NoPR} :
       /\ runPr' = [runPr EXCEPT ![r] = p]
       /\ IF p = NoPR
          THEN Finish(r, IF variant = "poll_loop" THEN "failed_no_pr" ELSE "no_pr")
          ELSE Goto(r, "fetch")
  /\ overlap' = (overlap \/ \E q \in Runs \ {r} : pc[q] \notin {"init", "done"})
  /\ UNCHANGED <<sendFailed, comments, checks, dedupVars, variant, notificationTemplate,
                 excludedInput, status, evaluated, hasNotification, existingComment,
                 hasNotified, elapsed, created>>

\* mutant: a failed check ends the run although other checks are pending
AfterVerdictFailFast(r, st) ==
  CASE variant = "single_shot" ->
         IF st.allPassed THEN Goto(r, "list") ELSE Finish(r, "not_ready")
    [] variant = "status_comment" -> Goto(r, "status_list")
    [] variant = "polling" ->
         IF Len(st.failedChecks) > 0 THEN Finish(r, "checks_failed")
         ELSE IF st.allCompleted
         THEN IF st.allPassed THEN Goto(r, "list") ELSE Finish(r, "checks_failed")
         ELSE Goto(r, "sleep")
    [] OTHER ->
         IF ~st.hasChecks THEN Goto(r, "sleep")
         ELSE IF Len(st.failed) > 0 THEN Finish(r, "checks_failed")
         ELSE IF st.allCompleted /\ st.allPassed /\ ~hasNotified[r] THEN Goto(r, "create")
         ELSE Goto(r, "sleep")

\* mutant: a completed verdict with failed checks keeps the run polling
AfterVerdictLenient(r, st) ==
  CASE variant = "single_shot" ->
         IF st.allPassed THEN Goto(r, "list") ELSE Finish(r, "not_ready")
    [] variant = "status_comment" -> Goto(r, "status_list")
    [] variant = "polling" ->
         IF st.allCompleted /\ st.allPassed THEN Goto(r, "list") ELSE Goto(r, "sleep")
    [] OTHER ->
         IF st.hasChecks /\ st.allCompleted /\ st.allPassed /\ ~hasNotified[r]
         THEN Goto(r, "create")
         ELSE Goto(r, "sleep")

\* where the run goes once the verdict st is known
AfterVerdict(r, st) ==
  CASE variant = "single_shot" ->
         IF st.allPassed THEN Goto(r, "list") ELSE Finish(r, "not_ready")
    [] variant = "status_comment" -> Goto(r, "status_list")
    [] variant = "polling" ->
         IF st.allCompleted
         THEN IF st.allPassed THEN Goto(r, "list") ELSE Finish(r, "checks_failed")
         ELSE Goto(r, "sleep")
    [] OTHER ->
         IF ~st.hasChecks THEN Goto(r, "sleep")
         ELSE IF st.allCompleted
              THEN IF st.allPassed /\ ~hasNotified[r] THEN Goto(r, "create")
                   ELSE IF Len(st.failed) > 0 THEN Finish(r, "checks_failed")
                   ELSE Goto(r, "sleep")
              ELSE Goto(r, "sleep")

\* fetch the status list and the check runs, filter, classify, aggregate
FetchChecks(r) ==
  /\ pc[r] = "fetch"
  /\ LET st == evaluate(variant, checks, excludedChecks)
     IN  /\ status' = [status EXCEPT ![r] = st]
         /\ evaluated' = [evaluated EXCEPT ![r] = relevantChecks(checks, excludedChecks)]
         /\ AfterVerdict(r, st)
  /\ UNCHANGED <<sendFailed, comments, checks, dedupVars, variant, notificationTemplate,
                 excludedInput, runPr, hasNotification, existingComment,
                 hasNotified, elapsed, created, overlap>>


RECURSIVE BulletLines(_, _)
\* names.map(c => `- ${c} <mark>`).join('\n')
BulletLines(names, mark) ==
  IF Len(names) = 0 THEN ""
  ELSE "- " \o names[1] \o " " \o mark
         \o (IF Len(names) > 1 THEN "\n" ELSE "")
         \o BulletLines(Tail(names), mark)

\* body of the running status comment; the emoji are written as words and the
\* timestamp as a fixed token
statusMessage(st) ==
  LET statusEmoji == IF st.allPassed THEN "[passed]"
                     ELSE IF Len(st.failedChecks) > 0 THEN "[failed]"
                     ELSE "[pending]"
      section(title, names, mark) ==
        IF Len(names) > 0
        THEN "**" \o title \o " Checks:**\n" \o BulletLines(names, mark) \o "\n\n"
        ELSE ""
  IN  STATUS_COMMENT_MARKER \o "\n### PR Status Check " \o statusEmoji \o "\n\n"
        \o section("Passed", st.passedChecks, "[passed]")
        \o section("Pending", st.pendingChecks, "[pending]")
        \o section("Failed", st.failedChecks, "[failed]")
        \o "Last updated: <timestamp>"

\* mutant: the search never finds the status comment
findStatusCommentNone(bodies) == 0

\* mutant: the search takes the latest comment, whatever its body
findStatusCommentLatest(bodies) == Len(bodies)

\* comments.data.find(comment => comment.body.includes(STATUS_COMMENT_MARKER))
findStatusComment(bodies) ==
  LET hits == {i \in DOMAIN bodies : Includes(bodies[i], STATUS_COMMENT_MARKER)}
  IN  IF hits = {} THEN 0 ELSE CHOOSE i \in hits : \A j \in hits : i <= j

\* updateStatusComment, first half: list the comments and look for the marker
ListStatusComments(r) ==
  /\ pc[r] = "status_list"
  /\ existingComment' =
       [existingComment EXCEPT ![r] = findStatusComment(comments[runPr[r]])]
  /\ Goto(r, "status_write")
  /\ UNCHANGED <<sendFailed, comments, checks, dedupVars, variant, notificationTemplate,
                 excludedInput, runPr, status, evaluated, hasNotification,
                 hasNotified, elapsed, created, overlap>>

\* updateStatusComment, second half: update the comment found or create one;
\* run() then notifies only if the verdict is allPassed
WriteStatusComment(r) ==
  /\ pc[r] = "status_write"
  /\ LET p == runPr[r]
         body == statusMessage(status[r])
     IN  comments' =
           [comments EXCEPT ![p] =
              IF existingComment[r] # 0
              THEN [@ EXCEPT ![existingComment[r]] = body]
              ELSE Append(@, body)]
  /\ IF status[r].allPassed THEN Goto(r, "list") ELSE Finish(r, "not_ready")
  /\ UNCHANGED <<sendFailed, checks, dedupVars, variant, notificationTemplate, excludedInput,
                 runPr, status, evaluated, hasNotification, existingComment,
                 hasNotified, elapsed, created, overlap>>

\* the scan for an earlier notification, over the listed comment bodies
scanForNotification(v, bodies) ==
  \E i \in DOMAIN bodies :
     /\ Includes(bodies[i], SuccessText)
     /\ v = "status_comment" => ~Includes(bodies[i], STATUS_COMMENT_MARKER)

\* list the comments of the PR and look for an earlier notification
ListComments(r) ==
  /\ pc[r] = "list"
  /\ LET found == scanForNotification(variant, comments[runPr[r]])
     IN  /\ hasNotification' = [hasNotification EXCEPT ![r] = found]
         /\ IF found THEN Finish(r, "already_notified") ELSE Goto(r, "create")
  /\ UNCHANGED <<sendFailed, comments, checks, dedupVars, variant, notificationTemplate,
                 excludedInput, runPr, status, evaluated, existingComment,
                 hasNotified, elapsed, created, overlap>>

\* the login put in place of {user}
mentionedLogin(v, r) == IF v = "poll_loop" THEN actor(r) ELSE authorLogin(runPr[r])

\* mutant: the loop goes on after the notification instead of returning
CreateNotificationKeepsPolling(r) ==
  /\ pc[r] = "create"
  /\ LET p == runPr[r]
         message == renderMessage(notificationTemplate, mentionedLogin(variant, r))
     IN  /\ comments' = [comments EXCEPT ![p] = Append(@, message)]
         /\ created' = [created EXCEPT ![p] = @ + 1]
  /\ hasNotified' = [hasNotified EXCEPT ![r] = (variant = "poll_loop") \/ @]
  /\ Goto(r, "sleep")
  /\ UNCHANGED <<sendFailed, checks, dedupVars, variant, notificationTemplate,
                 excludedInput, runPr, status, evaluated, hasNotification,
                 existingComment, elapsed, overlap>>

\* issues.createComment with the rendered notification
CreateNotification(r) ==
  /\ pc[r] = "create"
  /\ LET p == runPr[r]
         message == renderMessage(notificationTemplate, mentionedLogin(variant, r))
     IN  /\ comments' = [comments EXCEPT ![p] = Append(@, message)]
         /\ created' = [created EXCEPT ![p] = @ + 1]
  /\ hasNotified' = [hasNotified EXCEPT ![r] = (variant = "poll_loop") \/ @]
  /\ Finish(r, "notified")
  /\ UNCHANGED <<sendFailed, checks, dedupVars, variant, notificationTemplate, excludedInput,
                 runPr, status, evaluated, hasNotification, existingComment,
                 elapsed, overlap>>

\* mutant: a failed create-comment request still sets the flag of the poll loop
ApiFailsRecordsSent(r) ==
  /\ pc[r] \in {"fetch", "status_list", "status_write", "list", "create"}
  /\ IF variant = "poll_loop" THEN Goto(r, "sleep")
     ELSE Finish(r, IF pc[r] = "fetch" THEN "fetch_error" ELSE "error")
  /\ sendFailed' = [sendFailed EXCEPT ![r] = @ \/ pc[r] = "create"]
  /\ hasNotified' = [hasNotified EXCEPT ![r] = @ \/ pc[r] = "create"]
  /\ UNCHANGED <<comments, checks, dedupVars, variant, notificationTemplate,
                 excludedInput, runPr, status, evaluated, hasNotification,
                 existingComment, elapsed, created, overlap>>

\* a request to the hosting service fails: the poll loop catches it inside the
\* iteration and goes on to the wait, every other variant ends in its outer catch
ApiFails(r) ==
  /\ pc[r] \in {"fetch", "status_list", "status_write", "list", "create"}
  /\ IF variant = "poll_loop" THEN Goto(r, "sleep")
     ELSE Finish(r, IF pc[r] = "fetch" THEN "fetch_error" ELSE "error")
  /\ sendFailed' = [sendFailed EXCEPT ![r] = @ \/ pc[r] = "create"]
  /\ UNCHANGED <<comments, checks, dedupVars, variant, notificationTemplate,
                 excludedInput, runPr, status, evaluated, hasNotification,
                 existingComment, hasNotified, elapsed, created, overlap>>

\* mutant: the clock stands still during the wait
SleepClockStands(r) ==
  /\ pc[r] = "sleep"
  /\ IF elapsed[r] > TimeoutTicks THEN Finish(r, "timed_out") ELSE Goto(r, "fetch")
  /\ UNCHANGED <<sendFailed, elapsed, comments, checks, dedupVars, variant,
                 notificationTemplate, excludedInput, runPr, status, evaluated,
                 hasNotification, existingComment, hasNotified, created, overlap>>

\* mutant: the timeout test lets one more iteration through
SleepOneMore(r) ==
  /\ pc[r] = "sleep"
  /\ elapsed' = [elapsed EXCEPT ![r] = @ + 1]
  /\ IF elapsed[r] + 1 > TimeoutTicks + 1
     THEN Finish(r, "timed_out") ELSE Goto(r, "fetch")
  /\ UNCHANGED <<sendFailed, comments, checks, dedupVars, variant, notificationTemplate,
                 excludedInput, runPr, status, evaluated, hasNotification,
                 existingComment, hasNotified, created, overlap>>

\* the wait between two iterations, then the timeout test at the loop top
Sleep(r) ==
  /\ pc[r] = "sleep"
  /\ elapsed' = [elapsed EXCEPT ![r] = @ + 1]
  /\ IF elapsed[r] + 1 > TimeoutTicks THEN Finish(r, "timed_out") ELSE Goto(r, "fetch")
  /\ UNCHANGED <<sendFailed, comments, checks, dedupVars, variant, notificationTemplate,
                 excludedInput, runPr, status, evaluated, hasNotification,
                 existingComment, hasNotified, created, overlap>>

\* the checks of a head commit change state on the hosting service
ChecksChange ==
  /\ \E cs \in CheckLists \ {checks} : checks' = cs
  /\ UNCHANGED <<comments, dedupVars, runVars>>

RunNext ==
  \/ \E r \in Runs : RunStart(r)
  \/ \E r \in Runs : FetchChecks(r)
  \/ \E r \in Runs : ListStatusComments(r)
  \/ \E r \in Runs : WriteStatusComment(r)
  \/ \E r \in Runs : ListComments(r)
  \/ \E r \in Runs : CreateNotification(r)
  \/ \E r \in Runs : ApiFails(r)
  \/ \E r \in Runs : Sleep(r)
  \/ ChecksChange

SpecRun == Init /\ [][RunNext]_vars


(***************************************************************************)
(* Properties of the runs.                                                 *)
(***************************************************************************)
\* the message a run posts
notificationBody(r) == renderMessage(notificationTemplate, mentionedLogin(variant, r))

\* a run went through the notify step of an all-passed evaluation
RanToNotify(r) == pc[r] = "done" /\ outcome[r] \in {"notified", "already_notified"}

\* C1: two runs of the flow one after the other on the same PR, both with an
\* all-passed verdict and nobody else touching the comments, create exactly
\* one notification comment, whatever the notification-message template
\* (stated for the flows that look for an earlier notification before they
\* create one)
C1_TwiceInSequenceOneComment ==
  (/\ variant # "poll_loop"
   /\ ~overlap
   /\ \A r \in Runs : RanToNotify(r) /\ runPr[r] = EventPR)
    => created[EventPR] = 1

\* C2: when two evaluations of the same PR overlap, their list-comments and
\* create-comment steps interleaved in any order, at most one notification
\* comment is created on the PR (stated for the flows that list the comments
\* before they create one, under a template their scan recognises)
C2_ConcurrentAtMostOne ==
  (overlap /\ variant # "poll_loop" /\ Includes(notificationTemplate, SuccessText))
    => created[EventPR] <= 1

\* C3: a notification comment is created only in an evaluation whose verdict
\* is allPassed: at least one relevant check, none pending, none failed
C3_NotifyOnlyWhenAllPassed ==
  \A r \in Runs :
    (pc[r] = "create" \/ outcome[r] = "notified") =>
      /\ status[r].allPassed
      /\ Len(evaluated[r]) > 0
      /\ \A i \in DOMAIN evaluated[r] : classify(evaluated[r][i]) = "Passed"

C3_Witness ==
  \E r \in Runs : outcome[r] = "notified" /\ created[EventPR] > 0

\* C4: once the comment history holds the notification of an earlier run, a
\* later run (a fresh process, its store empty) with the identical PR number
\* and message creates no comment
C4_NoRepostOfIdenticalMessage ==
  ~overlap =>
    \A i, j \in DOMAIN comments[EventPR] :
      i < j => comments[EventPR][i] # comments[EventPR][j]

\* C8: the check over the listed comments reports "already notified" exactly
\* when some comment on the PR equals the candidate message after case-folding
\* and trimming: a run that goes on to create found no such comment, and a run
\* that ends as already notified found one
C8_DurableCheckIsNormalizedEquality ==
  \A r \in Runs :
    LET sameFolded(a, b) ==
          /\ Len(a) = Len(b)
          /\ \A k \in 1..Len(a) : LowerChar(CharAt(a, k)) = LowerChar(CharAt(b, k))
        found == \E i \in DOMAIN comments[EventPR] :
                    sameFolded(Trim(comments[EventPR][i]), Trim(notificationBody(r)))
    IN  /\ (~overlap /\ variant # "poll_loop" /\ pc[r] = "create") => ~found
        /\ outcome[r] = "already_notified" => found

\* C20: a polling run whose elapsed time exceeds the timeout is TimedOut at
\* the next loop top and evaluates no more; a TimedOut run has failed, has
\* waited at least once after an evaluation that did not end the loop, and
\* has created no notification
C20_TimeoutEndsTheRun ==
  \A r \in Runs :
    /\ elapsed[r] > TimeoutTicks => (pc[r] = "done" /\ outcome[r] = "timed_out")
    /\ outcome[r] = "timed_out" =>
         /\ variant \in PollingVariants
         /\ pc[r] = "done" /\ elapsed[r] > TimeoutTicks /\ elapsed[r] >= 1
         /\ ~hasNotified[r]
         /\ variant = "polling" => ~status[r].allCompleted
         /\ (\A q \in Runs \ {r} : pc[q] = "init") => created[EventPR] = 0

C20_Witness ==
  \E r \in Runs :
    /\ outcome[r] = "timed_out" /\ variant = "polling"
    /\ \A q \in Runs \ {r} : pc[q] = "init"
    /\ status[r].pendingChecks # <<>>
    /\ created[EventPR] = 0

\* C21: an error while the status list or the check runs are fetched in a
\* poll iteration is caught inside the iteration: the polling run is not
\* marked failed by it and goes on to the next iteration
C21_FetchErrorKeepsPolling ==
  \A r \in Runs : variant \in PollingVariants => outcome[r] # "fetch_error"

\* C30: a poll driver whose evaluation finds no relevant check stays in
\* Polling: the run is neither notified nor failed on that evaluation
C30_NoChecksKeepsPolling ==
  \A r \in Runs :
    (/\ variant \in PollingVariants
     /\ runPr[r] # NoPR /\ pc[r] \notin {"init", "fetch"}
     /\ outcome[r] \notin {"error", "fetch_error"}
     /\ evaluated[r] = <<>>) =>
      outcome[r] \notin {"checks_failed", "notified"}

\* C22: when the event carries no PR number and no open PR matches the SHA,
\* the run ends as failed, without polling
C22_NoPRFailsTheRun ==
  \A r \in Runs :
    (pc[r] = "done" /\ runPr[r] = NoPR) => outcome[r] = "failed_no_pr"

\* C23: the notification a run creates mentions the author of the PR, also
\* when somebody else triggered the run
C23_MentionsTheAuthor ==
  \A r \in Runs :
    outcome[r] = "notified" =>
      \E i \in DOMAIN comments[runPr[r]] :
         comments[runPr[r]][i]
           = renderMessage(notificationTemplate, authorLogin(runPr[r]))

(***************************************************************************)
(* Session store (src/src/notificationStore.js).                           *)
(***************************************************************************)
\* mutant: the key leaves the PR number out
notificationKeyNoPr(prNumber, message) ==
  "pr-" \o "-" \o message

\* mutant: the key has no separator between the PR number and the message
notificationKeyNoSeparator(prNumber, message) ==
  "pr-" \o ToString(prNumber) \o message

\* `pr-${prNumber}-${message}`
notificationKey(prNumber, message) ==
  "pr-" \o ToString(prNumber) \o "-" \o message

\* mutant: the message and the PR number change places in the key looked up
storeHasNotificationSwapped(store, prNumber, message) ==
  ("pr-" \o message \o "-" \o ToString(prNumber)) \in store

\* NotificationStore.hasNotification
storeHasNotification(store, prNumber, message) ==
  notificationKey(prNumber, message) \in store

\* NotificationStore.addNotification
storeAddNotification(store, prNumber, message) ==
  store \cup {notificationKey(prNumber, message)}

(***************************************************************************)
(* Gate evaluator and notification deduplicator.  Their bodies are not     *)
(* in the sources; they follow sections 4.4 and 4.5 of the specification   *)
(* and the calls of src/__tests__/index.test.js.                           *)
(***************************************************************************)
\* messages handed to the deduplicator
Messages == {"Test message", "Second message"}
\* the first message again, in another case and with blanks around it
MessageVariants == {" TEST MESSAGE "}
\* what somebody else may comment
ExternalBodies == {"test MESSAGE  "}

\* case-folding and trimming, tabulated over the strings of the model
NormalForm ==
  [m \in Messages \cup MessageVariants \cup ExternalBodies |-> ToLowerCase(Trim(m))]

\* case-folding and trimming of a message
normalizeMessage(m) ==
  IF m \in DOMAIN NormalForm THEN NormalForm[m] ELSE ToLowerCase(Trim(m))

\* some reviewer's latest review is an approval; reviews are listed oldest
\* first
hasApprovedLatestReview(reviews) ==
  \E i \in DOMAIN reviews :
     /\ reviews[i].state = "APPROVED"
     /\ \A j \in DOMAIN reviews : j > i => reviews[j].user # reviews[i].user

\* mutant: any approval counts, also one the reviewer has since overridden
isPRMergeableAnyApproval(pull, fetchOk) ==
  /\ fetchOk
  /\ pull.mergeable
  /\ pull.mergeable_state = "clean"
  /\ \E i \in DOMAIN pull.reviews : pull.reviews[i].state = "APPROVED"

\* mutant: the mergeable flag alone decides
isPRMergeableFlagOnly(pull, fetchOk) ==
  fetchOk /\ pull.mergeable

\* mutant: a failed fetch is not noticed
isPRMergeableIgnoringFetchError(pull, fetchOk) ==
  /\ pull.mergeable
  /\ pull.mergeable_state = "clean"
  /\ hasApprovedLatestReview(pull.reviews)

\* isPRMergeable: deny on a fetch error, on mergeable = false, on a
\* mergeable_state other than clean, and without an approved latest review
isPRMergeable(pull, fetchOk) ==
  /\ fetchOk
  /\ pull.mergeable
  /\ pull.mergeable_state = "clean"
  /\ hasApprovedLatestReview(pull.reviews)

\* hasExistingComment: some listed comment equals the message after
\* case-folding and trimming
hasExistingComment(bodies, message) ==
  \E i \in DOMAIN bodies : normalizeMessage(bodies[i]) = normalizeMessage(message)


\* inputs of the gate
Reviewers == {7, 8}
ReviewStates == {"APPROVED", "CHANGES_REQUESTED", "COMMENTED"}
MergeableStates == {"clean", "dirty", "blocked"}

RECURSIVE SumOver(_, _)
SumOver(f, S) ==
  IF S = {} THEN 0
  ELSE LET x == CHOOSE y \in S : TRUE IN f[x] + SumOver(f, S \ {x})

\* comments on all pull requests
CommentCount == SumOver([p \in PRs |-> Len(comments[p])], PRs)

\* what the latest call found before it acted and what it did; the record is
\* cleared when the pull request changes afterwards
CallRecord(op, p, m, fetchOk, sendOk, allowed, notify, listed, posted) ==
  [op |-> op, pr |-> p, message |-> m, fetchOk |-> fetchOk, sendOk |-> sendOk,
   recordedBefore |-> <<p, normalizeMessage(m)>> \in recorded,
   recordedElsewhere |->
     \E q \in PRs \ {p} : <<q, normalizeMessage(m)>> \in recorded,
   sentBefore |-> p \in sentInProcess,
   commentBefore |->
     \E i \in DOMAIN comments[p] :
        normalizeMessage(comments[p][i]) = normalizeMessage(m),
   allowed |-> allowed, notify |-> notify, listed |-> listed,
   posted |-> posted]

\* shouldNotify: the session layer first, without a remote call; then the
\* durable layer over the listed comments, which updates the session layer
\* when it finds the message
shouldNotify(store, bodies, p, m) ==
  IF storeHasNotification(store, p, normalizeMessage(m))
  THEN [notify |-> FALSE, listed |-> FALSE, store |-> store]
  ELSE IF hasExistingComment(bodies, m)
       THEN [notify |-> FALSE, listed |-> TRUE,
             store |-> storeAddNotification(store, p, normalizeMessage(m))]
       ELSE [notify |-> TRUE, listed |-> TRUE, store |-> store]

\* recordNotified
recordNotified(store, p, m) == storeAddNotification(store, p, normalizeMessage(m))

ShouldNotify(p, m) ==
  /\ LET sn == shouldNotify(notifications, comments[p], p, m)
     IN  /\ notifications' = sn.store
         /\ recorded' = IF sn.listed /\ ~sn.notify
                        THEN recorded \cup {<<p, normalizeMessage(m)>>}
                        ELSE recorded
         /\ lastCall' = CallRecord("shouldNotify", p, m, TRUE, TRUE, TRUE,
                                   sn.notify, sn.listed, FALSE)
  /\ UNCHANGED <<comments, checks, runVars, pulls, sentInProcess>>

RecordNotified(p, m) ==
  /\ notifications' = recordNotified(notifications, p, m)
  /\ recorded' = recorded \cup {<<p, normalizeMessage(m)>>}
  /\ UNCHANGED <<comments, checks, runVars, pulls, sentInProcess, lastCall>>

\* createComment(octokit, context, prNumber, message): gate, deduplicator,
\* post, record; a failed post is propagated and not recorded
CreateComment(p, m, fetchOk, sendOk) ==
  LET allowed == isPRMergeable(pulls[p], fetchOk)
      sn == shouldNotify(notifications, comments[p], p, m)
      posts == allowed /\ sn.notify /\ sendOk
  IN  /\ posts => CommentCount < MaxComments
      /\ comments' = IF posts THEN [comments EXCEPT ![p] = Append(@, m)]
                     ELSE comments
      /\ notifications' = IF ~allowed THEN notifications
                          ELSE IF posts THEN recordNotified(sn.store, p, m)
                          ELSE sn.store
      /\ recorded' = IF allowed /\ (posts \/ (sn.listed /\ ~sn.notify))
                     THEN recorded \cup {<<p, normalizeMessage(m)>>}
                     ELSE recorded
      /\ sentInProcess' = IF posts THEN sentInProcess \cup {p} ELSE sentInProcess
      /\ lastCall' = CallRecord("createComment", p, m, fetchOk, sendOk, allowed,
                                allowed /\ sn.notify, allowed /\ sn.listed, posts)
      /\ UNCHANGED <<checks, runVars, pulls>>

\* isPRMergeable(octokit, context, prNumber) on its own
IsPRMergeable(p, fetchOk) ==
  /\ lastCall' = CallRecord("isPRMergeable", p, "", fetchOk, TRUE,
                            isPRMergeable(pulls[p], fetchOk), FALSE, FALSE, FALSE)
  /\ UNCHANGED <<comments, checks, runVars, pulls, notifications, recorded,
                 sentInProcess>>

\* the process ends and a new one starts: the store is in memory only
ResetStore ==
  /\ notifications' = {}
  /\ recorded' = {}
  /\ sentInProcess' = {}
  /\ lastCall' = NoCall
  /\ UNCHANGED <<comments, checks, runVars, pulls>>

\* somebody else comments on the PR
ExternalComment(p, body) ==
  /\ CommentCount < MaxComments
  /\ comments' = [comments EXCEPT ![p] = Append(@, body)]
  /\ UNCHANGED <<checks, runVars, dedupVars>>

\* the hosting service recomputes the mergeability of the PR
MergeabilityChanges(p, mergeable, state) ==
  /\ pulls' = [pulls EXCEPT ![p].mergeable = mergeable,
                            ![p].mergeable_state = state]
  /\ pulls' # pulls
  /\ lastCall' = NoCall
  /\ UNCHANGED <<comments, checks, runVars, notifications, recorded,
                 sentInProcess>>

\* a reviewer submits a review
SubmitReview(p, user, state) ==
  /\ Len(pulls[p].reviews) < MaxReviews
  /\ pulls' = [pulls EXCEPT ![p].reviews =
                 Append(@, [user |-> user, state |-> state])]
  /\ lastCall' = NoCall
  /\ UNCHANGED <<comments, checks, runVars, notifications, recorded,
                 sentInProcess>>

InitDedup ==
  /\ InitRemote
  /\ InitRuns
  /\ InitStore
  /\ checks = <<>>
  /\ variant = "status_comment"
  /\ notificationTemplate = "@{user} All checks have passed!"
  /\ excludedInput = ""
  /\ pulls = [p \in PRs |-> ReadyPull]

DedupNext ==
  \/ \E p \in PRs, m \in Messages, sendOk \in BOOLEAN :
        CreateComment(p, m, TRUE, sendOk)
  \/ \E p \in PRs, m \in Messages \cup MessageVariants : ShouldNotify(p, m)
  \/ \E p \in PRs, m \in Messages : RecordNotified(p, m)
  \/ \E p \in PRs, body \in ExternalBodies : ExternalComment(p, body)
  \/ \E state \in {"clean", "dirty"} :
        MergeabilityChanges(EventPR, state = "clean", state)
  \/ ResetStore

SpecDedup == InitDedup /\ [][DedupNext]_vars

InitGate ==
  /\ InitRemote
  /\ InitRuns
  /\ InitStore
  /\ checks = <<>>
  /\ variant = "status_comment"
  /\ notificationTemplate = "@{user} All checks have passed!"
  /\ excludedInput = ""
  /\ pulls = [p \in PRs |-> NewPull]

GateNext ==
  \/ \E fetchOk \in BOOLEAN : IsPRMergeable(EventPR, fetchOk)
  \/ \E fetchOk \in BOOLEAN : CreateComment(EventPR, "Test message", fetchOk, TRUE)
  \/ \E mergeable \in BOOLEAN, state \in MergeableStates :
        MergeabilityChanges(EventPR, mergeable, state)
  \/ \E user \in Reviewers, state \in ReviewStates :
        SubmitReview(EventPR, user, state)
  \/ ResetStore

SpecGate == InitGate /\ [][GateNext]_vars

(***************************************************************************)
(* Properties of the deduplicator and the gate.                            *)
(***************************************************************************)
\* C5: the keys are PR-scoped: a message already recorded for another PR is
\* still posted to this PR when the gate allows, this PR has neither a record
\* nor a matching comment, and the post goes through
C5_KeysArePRScoped ==
  (/\ lastCall.op = "createComment"
   /\ lastCall.recordedElsewhere
   /\ ~lastCall.recordedBefore /\ ~lastCall.commentBefore
   /\ lastCall.allowed /\ lastCall.sendOk) => lastCall.posted

C5_Witness ==
  /\ lastCall.op = "createComment" /\ lastCall.posted
  /\ lastCall.recordedElsewhere
  /\ \E q \in PRs \ {lastCall.pr} :
        \E i \in DOMAIN comments[q] : comments[q][i] = lastCall.message

\* C6: after a notification was created for a PR in this process, a later
\* createComment for the same PR with a different message creates no comment
C6_OtherMessageSamePRBlocked ==
  (lastCall.op = "createComment" /\ lastCall.sentBefore) => ~lastCall.posted

\* C7: once a message is recorded for a PR in this process, shouldNotify for
\* that PR and any message with the same case-folded, trimmed form returns
\* false and lists no comments
C7_SessionLayerBlocksWithoutRemoteCall ==
  (lastCall.op = "shouldNotify" /\ lastCall.recordedBefore)
    => (~lastCall.notify /\ ~lastCall.listed)

C7_Witness ==
  /\ lastCall.op = "shouldNotify" /\ lastCall.recordedBefore
  /\ lastCall.message \in MessageVariants
  /\ ~lastCall.notify /\ ~lastCall.listed

C10_LatestReviewPerReviewer ==
  (/\ lastCall.op = "isPRMergeable" /\ lastCall.fetchOk
   /\ pulls[lastCall.pr].mergeable
   /\ pulls[lastCall.pr].mergeable_state = "clean") =>
    LET reviews == pulls[lastCall.pr].reviews
        indexes(u) == {i \in DOMAIN reviews : reviews[i].user = u}
        latest(u) == reviews[CHOOSE i \in indexes(u) :
                               \A j \in indexes(u) : j <= i]
    IN  lastCall.allowed <=>
          \E u \in Reviewers :
             indexes(u) # {} /\ latest(u).state = "APPROVED"

C10_Witness ==
  /\ lastCall.op = "isPRMergeable" /\ lastCall.fetchOk /\ ~lastCall.allowed
  /\ pulls[lastCall.pr].mergeable
  /\ pulls[lastCall.pr].mergeable_state = "clean"
  /\ pulls[lastCall.pr].reviews = <<[user |-> 7, state |-> "APPROVED"],
                                    [user |-> 7, state |-> "CHANGES_REQUESTED"]>>

\* C11: when the fetch of the mergeability snapshot or of the reviews fails,
\* the gate returns false to its caller, and a createComment that consulted it
\* posts nothing, however ready the PR is
C11_GateFailsClosed ==
  (lastCall.op \in {"isPRMergeable", "createComment"} /\ ~lastCall.fetchOk)
    => (~lastCall.allowed /\ ~lastCall.posted)

C11_Witness ==
  /\ lastCall.op = "createComment" /\ ~lastCall.fetchOk /\ lastCall.sendOk
  /\ ~lastCall.posted
  /\ ~lastCall.recordedBefore /\ ~lastCall.commentBefore
  /\ pulls[lastCall.pr] = ReadyPull

(***************************************************************************)
(* The poll loop of src/unnamed/part_001 on pull requests that the gate    *)
(* would allow or deny.                                                    *)
(***************************************************************************)
UnmergeablePull == [mergeable |-> FALSE, mergeable_state |-> "dirty",
                    reviews |-> <<[user |-> 7, state |-> "APPROVED"]>>]

InitPoll ==
  /\ InitRemote
  /\ InitRuns
  /\ InitStore
  /\ \E pull \in {ReadyPull, UnmergeablePull} :
        pulls = [p \in PRs |-> IF p = EventPR THEN pull ELSE ReadyPull]
  /\ checks \in CheckLists
  /\ variant = "poll_loop"
  /\ notificationTemplate = "@{user} All checks have passed!"
  /\ excludedInput \in ExcludedInputs

PollNext ==
  \/ \E r \in Runs : RunStart(r)
  \/ \E r \in Runs : FetchChecks(r)
  \/ \E r \in Runs : CreateNotification(r)
  \/ \E r \in Runs : ApiFails(r)
  \/ \E r \in Runs : Sleep(r)
  \/ ChecksChange

SpecPoll == InitPoll /\ [][PollNext]_vars

\* C12: on an all-passed verdict the poll loop goes on to notify only when
\* the gate allows; while the gate denies, the loop stays in Polling and
\* creates no notification
C12_GateDenialKeepsPolling ==
  \A r \in Runs :
    (pc[r] = "create" \/ outcome[r] = "notified")
      => isPRMergeable(pulls[runPr[r]], TRUE)

(***************************************************************************)
(* One evaluation over a wider range of raw checks and excluded-checks     *)
(* inputs.                                                                 *)
(***************************************************************************)
\* raw checks the hosting service may report
EvalChecks ==
  { CheckRun("build", "completed", "success"),
    CheckRun("build", "completed", "failure"),
    CheckRun("build", "in_progress", Null),
    CheckRun("Lint", "completed", "skipped"),
    CheckRun("Lint", "queued", "success"),
    CheckRun("backend-linting", "completed", "neutral"),
    CheckRun("backend-linting", "completed", "stale"),
    CheckRun(Undefined, "completed", "success"),
    StatusCheck("ci/status", "success"),
    StatusCheck("ci/status", "pending"),
    StatusCheck("ci/status", "error"),
    StatusCheck("atlantis/apply", "success") }

EvalCheckLists == UNION {[1..n -> EvalChecks] : n \in 0..MaxChecks}

\* values of the excluded-checks input
EvalExcludedInputs == {"", "lint", "lint,", "LINT, build", "atlantis/apply"}

InitEval ==
  /\ InitRemote
  /\ InitRuns
  /\ InitStore
  /\ pulls = [p \in PRs |-> ReadyPull]
  /\ checks \in EvalCheckLists
  /\ variant \in Variants
  /\ notificationTemplate = "@{user} All checks have passed!"
  /\ excludedInput \in EvalExcludedInputs

EvalNext ==
  \/ RunStart("r1")
  \/ FetchChecks("r1")

SpecEval == InitEval /\ [][EvalNext]_vars

\* the run holds the verdict of an evaluation
HasVerdict(r) ==
  /\ runPr[r] # NoPR
  /\ pc[r] \notin {"init", "fetch"}
  /\ outcome[r] \notin {"error", "fetch_error"}

\* the name lists of a verdict, under the field names of the variant
verdictPending(v, st) == IF v = "poll_loop" THEN st.pending ELSE st.pendingChecks
verdictFailed(v, st) == IF v = "poll_loop" THEN st.failed ELSE st.failedChecks
verdictPassed(v, st) == IF v = "poll_loop" THEN st.passed ELSE st.passedChecks

\* C13: in every verdict allPassed implies allCompleted, allCompleted implies
\* an empty pending list, a pending relevant check forces allCompleted =
\* false whatever the other checks are, and allPassed implies an empty failed
\* list and a non-empty passed list
C13_VerdictInvariants ==
  \A r \in Runs :
    (HasVerdict(r) /\ variant \in {"status_comment", "polling", "poll_loop"}) =>
      LET st == status[r]
          rel == evaluated[r]
      IN  /\ st.allPassed => st.allCompleted
          /\ st.allCompleted => verdictPending(variant, st) = <<>>
          /\ (\E i \in DOMAIN rel : classify(rel[i]) = "Pending")
               => ~st.allCompleted
          /\ st.allPassed => verdictFailed(variant, st) = <<>>
          /\ (st.allPassed /\ variant # "polling")
               => verdictPassed(variant, st) # <<>>

C13_Witness ==
  \E r \in Runs :
    /\ HasVerdict(r) /\ variant = "poll_loop"
    /\ ~status[r].allCompleted /\ ~status[r].allPassed
    /\ status[r].pending # <<>> /\ status[r].passed # <<>>

\* C14: when no check is relevant (no checks at all, or all of them
\* excluded) the verdict has allPassed = false and, where the verdict has the
\* field, hasChecks = false
C14_EmptyRelevantListNotPassed ==
  \A r \in Runs :
    (HasVerdict(r) /\ evaluated[r] = <<>>) =>
      /\ ~status[r].allPassed
      /\ variant = "poll_loop" => ~status[r].hasChecks

C14_Witness ==
  \E r \in Runs :
    /\ HasVerdict(r) /\ variant = "poll_loop"
    /\ checks = <<StatusCheck("atlantis/apply", "success")>>
    /\ excludedInput = "atlantis/apply"
    /\ evaluated[r] = <<>>
    /\ ~status[r].hasChecks /\ ~status[r].allPassed

\* C15: when there are relevant checks and each classifies as Passed, the
\* verdict has hasChecks, allCompleted and allPassed true, pending and failed
\* empty, and passed holds the name of every relevant check
C15_AllPassedVerdict ==
  \A r \in Runs :
    (/\ HasVerdict(r) /\ variant \in {"status_comment", "poll_loop"}
     /\ evaluated[r] # <<>>
     /\ \A i \in DOMAIN evaluated[r] : classify(evaluated[r][i]) = "Passed") =>
      LET st == status[r]
          rel == evaluated[r]
      IN  /\ variant = "poll_loop" => st.hasChecks
          /\ st.allCompleted /\ st.allPassed
          /\ verdictPending(variant, st) = <<>>
          /\ verdictFailed(variant, st) = <<>>
          /\ verdictPassed(variant, st) = [i \in DOMAIN rel |-> checkName(rel[i])]

C15_Witness ==
  \E r \in Runs :
    /\ HasVerdict(r) /\ variant = "poll_loop" /\ excludedInput = ""
    /\ checks = <<CheckRun("build", "completed", "success")>>
    /\ status[r].hasChecks /\ status[r].allCompleted /\ status[r].allPassed
    /\ status[r].passed = <<"build">>

\* C16: when no relevant check is pending and at least one classifies as
\* Failed, the verdict has allCompleted = true and allPassed = false, and the
\* failed list holds the names of the Failed checks and no other name
C16_FailedVerdict ==
  \A r \in Runs :
    LET rel == evaluated[r]
        isFailed(check) == classify(check) = "Failed"
        failedOnes == SelectSeq(rel, isFailed)
    IN  (/\ HasVerdict(r) /\ variant \in {"status_comment", "polling", "poll_loop"}
         /\ \A i \in DOMAIN rel : classify(rel[i]) # "Pending"
         /\ failedOnes # <<>>) =>
          /\ status[r].allCompleted /\ ~status[r].allPassed
          /\ verdictFailed(variant, status[r])
               = [i \in DOMAIN failedOnes |-> checkName(failedOnes[i])]

C16_Witness ==
  \E r \in Runs :
    /\ HasVerdict(r) /\ variant = "poll_loop"
    /\ status[r].allCompleted /\ ~status[r].allPassed
    /\ status[r].failed = <<"build">> /\ status[r].passed # <<>>

\* C17: every raw check, whatever its status, conclusion or state and with or
\* without a name, gets exactly one of the classes Pending, Passed and Failed,
\* so the three name lists of a verdict share out the relevant checks
C17_ClassificationTotal ==
  \A r \in Runs :
    (HasVerdict(r) /\ variant \in {"status_comment", "poll_loop"}) =>
      LET st == status[r]
          rel == evaluated[r]
          one(b) == IF b THEN 1 ELSE 0
      IN  /\ \A i \in DOMAIN rel :
               /\ classify(rel[i]) \in {"Pending", "Passed", "Failed"}
               /\ one(PendingFlags(rel)[i]) + one(PassedFlags(rel)[i])
                    + one(FailedFlags(rel)[i]) = 1
          /\ Len(verdictPending(variant, st)) + Len(verdictPassed(variant, st))
               + Len(verdictFailed(variant, st)) = Len(rel)

C17_Witness ==
  \E r \in Runs :
    /\ HasVerdict(r) /\ variant = "status_comment"
    /\ \E i, j \in DOMAIN evaluated[r] :
          /\ evaluated[r][i].conclusion = "stale"
          /\ evaluated[r][j].conclusion = Null
    /\ Len(status[r].pendingChecks) = 1 /\ Len(status[r].failedChecks) = 1

\* C18: a check is left out exactly when some configured pattern occurs in its
\* display name (name, else context), letter case aside; every other check
\* is kept
C18_ExclusionIsSubstringCaseInsensitive ==
  \A r \in Runs :
    HasVerdict(r) =>
      LET sameLetter(a, b) == LowerChar(a) = LowerChar(b)
          occursIn(pat, n) ==
            \E k \in 0..(Len(n) - Len(pat)) :
               \A j \in 1..Len(pat) : sameLetter(CharAt(n, k + j), CharAt(pat, j))
          kept(check) ==
            \/ checkName(check) = Undefined
            \/ ~\E i \in DOMAIN excludedChecks :
                   occursIn(excludedChecks[i], checkName(check))
      IN  evaluated[r] = SelectSeq(checks, kept)

C18_Witness ==
  \E r \in Runs :
    /\ HasVerdict(r) /\ excludedInput = "lint"
    /\ Len(checks) = 2 /\ Len(evaluated[r]) = 0
    /\ checks[1].name = "Lint" /\ checks[2].name = "backend-linting"

\* C19: empty entries of the excluded-checks input exclude nothing: with an
\* empty input, or with a trailing comma after a pattern that matches no
\* check, checks that all passed give allPassed = true
C19_EmptyEntriesDropped ==
  \A r \in Runs :
    (/\ HasVerdict(r) /\ excludedInput \in {"", "lint,"}
     /\ checks # <<>>
     /\ \A i \in DOMAIN checks :
           checks[i].name = "build" /\ classify(checks[i]) = "Passed")
      => status[r].allPassed

\* names of the checks of a list, in list order
namesOf(cs) == [i \in DOMAIN cs |-> checkName(cs[i])]

\* C24: a status context whose state is pending is classified Pending: its
\* name is in the pending list and allCompleted is false
C24_PendingStatusContextIsPending ==
  \A r \in Runs :
    (HasVerdict(r) /\ variant \in {"status_comment", "polling", "poll_loop"}) =>
      \A i \in DOMAIN evaluated[r] :
        (~evaluated[r][i].isCheckRun /\ evaluated[r][i].state = "pending") =>
          /\ ~status[r].allCompleted
          /\ \E k \in DOMAIN verdictPending(variant, status[r]) :
                verdictPending(variant, status[r])[k] = checkName(evaluated[r][i])

\* C25: a check run is classified by the first rule that applies: a status
\* other than completed gives Pending whatever the conclusion, else a null
\* conclusion gives Pending, else a conclusion among success, skipped and
\* neutral gives Passed, else Failed
C25_CheckRunRules ==
  \A r \in Runs :
    (HasVerdict(r) /\ variant \in {"status_comment", "poll_loop"}) =>
      LET rel == evaluated[r]
          expected(c) ==
            IF c.status # "completed" THEN "Pending"
            ELSE IF c.conclusion = Null THEN "Pending"
            ELSE IF c.conclusion \in {"success", "skipped", "neutral"} THEN "Passed"
            ELSE "Failed"
          pendingOne(c) == expected(c) = "Pending"
          passedOne(c) == expected(c) = "Passed"
          failedOne(c) == expected(c) = "Failed"
      IN  /\ \A i \in DOMAIN rel :
               rel[i].isCheckRun => classify(rel[i]) = expected(rel[i])
          /\ (\A i \in DOMAIN rel : rel[i].isCheckRun) =>
               /\ verdictPending(variant, status[r]) = namesOf(SelectSeq(rel, pendingOne))
               /\ verdictPassed(variant, status[r]) = namesOf(SelectSeq(rel, passedOne))
               /\ verdictFailed(variant, status[r]) = namesOf(SelectSeq(rel, failedOne))

C25_Witness ==
  \E r \in Runs :
    /\ HasVerdict(r) /\ variant = "poll_loop"
    /\ evaluated[r] = <<CheckRun("Lint", "queued", "success")>>
    /\ status[r].pending = <<"Lint">> /\ status[r].passed = <<>>

\* C26: a status context with a state among success, skipped and neutral is
\* classified Passed, and one with the state failure or error is classified
\* Failed
C26_StatusContextRules ==
  \A r \in Runs :
    HasVerdict(r) =>
      LET rel == evaluated[r]
          good(c) == c.state \in {"success", "skipped", "neutral"}
          bad(c) == c.state \in {"failure", "error"}
          settled == \A i \in DOMAIN rel :
                        ~rel[i].isCheckRun /\ (good(rel[i]) \/ bad(rel[i]))
      IN  /\ \A i \in DOMAIN rel :
               ~rel[i].isCheckRun =>
                 /\ good(rel[i]) => classify(rel[i]) = "Passed"
                 /\ bad(rel[i]) => classify(rel[i]) = "Failed"
          /\ (settled /\ variant \in {"status_comment", "poll_loop"}) =>
               /\ verdictPassed(variant, status[r]) = namesOf(SelectSeq(rel, good))
               /\ verdictFailed(variant, status[r]) = namesOf(SelectSeq(rel, bad))
          /\ (settled /\ variant = "single_shot") =>
               (status[r].allPassed <=>
                  (rel # <<>> /\ \A i \in DOMAIN rel : good(rel[i])))

C26_Witness ==
  \E r \in Runs :
    /\ HasVerdict(r) /\ variant = "poll_loop"
    /\ evaluated[r] = <<StatusCheck("ci/status", "error"),
                        StatusCheck("atlantis/apply", "success")>>
    /\ status[r].failed = <<"ci/status">>
    /\ status[r].passed = <<"atlantis/apply">>

\* C27: a raw check without a name is not excluded and is reported as a
\* Failed check under the name "<unnamed>"
C27_UnnamedCheckIsFailed ==
  \A r \in Runs :
    (HasVerdict(r) /\ variant \in {"status_comment", "polling", "poll_loop"}) =>
      \A i \in DOMAIN checks :
        checkName(checks[i]) = Undefined =>
          /\ \E k \in DOMAIN evaluated[r] : evaluated[r][k] = checks[i]
          /\ \E k \in DOMAIN verdictFailed(variant, status[r]) :
                verdictFailed(variant, status[r])[k] = "<unnamed>"

\* C28: the verdict depends on the checks that are not excluded only: giving
\* an excluded check another status, conclusion or state leaves every field
\* of the verdict as it is
C28_ExcludedChecksDoNotCount ==
  \A r \in Runs :
    HasVerdict(r) =>
      LET others == { [status |-> "in_progress", conclusion |-> Null, state |-> "pending"],
                      [status |-> "completed", conclusion |-> "failure", state |-> "failure"],
                      [status |-> "completed", conclusion |-> "success", state |-> "success"] }
          changed(c, o) ==
            IF c.isCheckRun THEN CheckRun(c.name, o.status, o.conclusion)
            ELSE StatusCheck(c.context, o.state)
      IN  \A i \in DOMAIN checks :
            isExcluded(checks[i], excludedChecks) =>
              \A o \in others :
                evaluate(variant, [checks EXCEPT ![i] = changed(@, o)], excludedChecks)
                  = status[r]

C28_Witness ==
  \E r \in Runs :
    /\ HasVerdict(r) /\ variant = "poll_loop" /\ excludedInput = "lint"
    /\ checks = <<CheckRun("build", "completed", "success"),
                  CheckRun("Lint", "queued", "success")>>
    /\ status[r].allPassed /\ status[r].pending = <<>>

\* C29: the pending, failed and passed lists share out the relevant checks
\* by class: each list holds the names of the checks of its class, in order,
\* and the three lengths add up to the number of relevant checks
C29_ListsPartitionByClass ==
  \A r \in Runs :
    (HasVerdict(r) /\ variant \in {"status_comment", "poll_loop"}) =>
      LET rel == evaluated[r]
          st == status[r]
          inPending(c) == classify(c) = "Pending"
          inPassed(c) == classify(c) = "Passed"
          inFailed(c) == classify(c) = "Failed"
      IN  /\ verdictPending(variant, st) = namesOf(SelectSeq(rel, inPending))
          /\ verdictPassed(variant, st) = namesOf(SelectSeq(rel, inPassed))
          /\ verdictFailed(variant, st) = namesOf(SelectSeq(rel, inFailed))
          /\ Len(SelectSeq(rel, inPending)) + Len(SelectSeq(rel, inPassed))
               + Len(SelectSeq(rel, inFailed)) = Len(rel)

C29_Witness ==
  \E r \in Runs :
    /\ HasVerdict(r) /\ variant = "status_comment"
    /\ Len(evaluated[r]) = 2
    /\ Len(status[r].passedChecks) = 1 /\ Len(status[r].failedChecks) = 1

(***************************************************************************)
(* Properties of the poll drivers.                                         *)
(***************************************************************************)
\* the latest verdict of run r counts a check of class c
verdictHas(r, c) == \E i \in DOMAIN evaluated[r] : classify(evaluated[r][i]) = c

\* C31: while a relevant check is pending the poll driver stays in Polling,
\* also when other relevant checks have failed: the run waits, and ends only
\* by the timeout
C31_PendingKeepsPolling ==
  \A r \in Runs :
    (variant \in PollingVariants /\ HasVerdict(r) /\ verdictHas(r, "Pending")) =>
      \/ pc[r] = "sleep" /\ outcome[r] = "running"
      \/ pc[r] = "done" /\ outcome[r] = "timed_out"

C31_Witness ==
  \E r \in Runs :
    /\ variant \in PollingVariants /\ HasVerdict(r)
    /\ verdictHas(r, "Pending") /\ verdictHas(r, "Failed")
    /\ pc[r] = "sleep"

\* C32: a create-comment request that fails records nothing: the step leaves
\* the comments, the flag of the run and the session store as they were and
\* takes the run to the wait, and the flag of a run under way is never set,
\* so the next all-passed verdict reaches the create-comment request again
C32_FailedSendIsNotRecorded ==
  [][\A r \in Runs :
       /\ (pc[r] = "create" /\ pc'[r] # "create" /\ comments' = comments) =>
            /\ hasNotified'[r] = hasNotified[r]
            /\ notifications' = notifications
            /\ created' = created
            /\ pc'[r] = "sleep" /\ outcome'[r] = "running"
       /\ pc[r] # "done" => ~hasNotified[r]]_vars

C32_Witness ==
  \E r \in Runs :
    /\ sendFailed[r] /\ ~hasNotified[r]
    /\ pc[r] = "create" /\ elapsed[r] > 0
    /\ status[r].allPassed

\* C33: a create-comment request that fails is a hard failure: the run ends
\* marked failed, it is not caught, logged and tried again
C33_FailedSendFailsTheRun ==
  \A r \in Runs :
    (variant \in PollingVariants /\ sendFailed[r]) =>
      pc[r] = "done" /\ outcome[r] = "error"

(***************************************************************************)
(* The poll drivers under fair scheduling: every request of a run under    *)
(* way is answered or fails, and the timer of the wait fires.              *)
(***************************************************************************)
InitLive ==
  /\ InitRemote
  /\ InitRuns
  /\ InitStore
  /\ pulls = [p \in PRs |-> ReadyPull]
  /\ checks \in CheckLists
  /\ variant \in PollingVariants
  /\ notificationTemplate = "@{user} All checks have passed!"
  /\ excludedInput \in ExcludedInputs

\* the next step of run r, whichever it is
RunStep(r) ==
  \/ FetchChecks(r)
  \/ ListComments(r)
  \/ CreateNotification(r)
  \/ ApiFails(r)
  \/ Sleep(r)

\* one run of the driver, with the checks changing under it
LiveNext ==
  \/ RunStart("r1")
  \/ RunStep("r1")
  \/ ChecksChange

SpecLive == InitLive /\ [][LiveNext]_vars /\ WF_vars(RunStep("r1"))

\* the ways a run of a poll driver ends
TerminalOutcomes ==
  {"notified", "already_notified", "checks_failed", "error", "fetch_error",
   "timed_out"}

\* C34: every run of a poll driver that has entered the loop ends, whatever
\* the checks do and whichever requests fail: it reaches an end state
\* (notified, failed or timed out) and cannot stay in Polling forever
C34_PollRunEnds ==
  (pc["r1"] \notin {"init", "done"})
    ~> (pc["r1"] = "done" /\ outcome["r1"] \in TerminalOutcomes)

C34_Witness ==
  \E r \in Runs :
    /\ variant = "poll_loop" /\ sendFailed[r]
    /\ pc[r] = "done" /\ outcome[r] = "timed_out"
    /\ elapsed[r] = TimeoutTicks + 1

\* C35: a verdict that is all-completed with a failed relevant check ends the
\* run of a poll driver as failed in the iteration that computed it: the step
\* that fails the run creates no comment, and the run polls no more
C35_CompletedWithFailureFailsTheRun ==
  [][\A r \in Runs :
       /\ (/\ variant \in PollingVariants /\ HasVerdict(r)
           /\ verdictHas(r, "Failed") /\ ~verdictHas(r, "Pending")) =>
            pc[r] = "done" /\ outcome[r] = "checks_failed"
       /\ (outcome[r] # "checks_failed" /\ outcome'[r] = "checks_failed") =>
            comments' = comments /\ created' = created
       /\ outcome[r] = "checks_failed" =>
            /\ pc'[r] = "done" /\ outcome'[r] = "checks_failed"
            /\ elapsed'[r] = elapsed[r] /\ evaluated'[r] = evaluated[r]]_vars

C35_Witness ==
  \E r \in Runs :
    /\ variant = "poll_loop" /\ outcome[r] = "checks_failed"
    /\ verdictHas(r, "Failed") /\ verdictHas(r, "Passed")
    /\ ~hasNotified[r] /\ elapsed[r] > 0

\* C36: a run of the poll loop creates at most one notification comment: the
\* step that creates it ends the run as notified, and a notified run stays
\* as it is, with no further evaluation, wait or comment of its own
C36_NotifiedIsAbsorbing ==
  [][\A r \in Runs :
       /\ (pc[r] = "create" /\ pc'[r] # "create" /\ comments' # comments) =>
            /\ pc'[r] = "done" /\ outcome'[r] = "notified" /\ hasNotified'[r]
            /\ Len(comments'[runPr[r]]) = Len(comments[runPr[r]]) + 1
       /\ hasNotified[r] => outcome[r] = "notified"
       /\ outcome[r] = "notified" =>
            /\ pc'[r] = "done" /\ outcome'[r] = "notified"
            /\ elapsed'[r] = elapsed[r] /\ evaluated'[r] = evaluated[r]
            /\ \/ comments' = comments
               \/ \E q \in Runs \ {r} : pc[q] = "create" /\ pc'[q] = "done"]_vars

C36_Witness ==
  \E r \in Runs :
    /\ outcome[r] = "notified" /\ hasNotified[r] /\ elapsed[r] > 0
    /\ \E q \in Runs \ {r} : pc[q] = "sleep"

(***************************************************************************)
(* Properties of the status comment.                                       *)
(***************************************************************************)
\* positions of the comments of PR p that carry the status marker
markerComments(p) ==
  {i \in DOMAIN comments[p] : Includes(comments[p][i], STATUS_COMMENT_MARKER)}

\* run r has got past updateStatusComment
wroteStatus(r) ==
  /\ runPr[r] # NoPR
  /\ \/ pc[r] \in {"list", "create"}
     \/ outcome[r] \in {"not_ready", "already_notified", "notified"}

\* C37: in the status-comment variant, runs that do not overlap leave exactly
\* one comment with the status marker on the PR once a run has written its
\* status: the first run creates it, a later run updates it in place
C37_OneStatusComment ==
  (variant = "status_comment" /\ ~overlap) =>
    /\ Cardinality(markerComments(EventPR)) <= 1
    /\ (\E r \in Runs : wroteStatus(r)) => Cardinality(markerComments(EventPR)) = 1
    /\ \A r \in Runs :
         (wroteStatus(r) /\ \A q \in Runs \ {r} : pc[q] = "init" \/ outcome[q] = "no_pr") =>
           \E i \in markerComments(EventPR) :
              comments[EventPR][i] = statusMessage(status[r])

C37_Witness ==
  /\ variant = "status_comment" /\ ~overlap
  /\ \A r \in Runs : pc[r] = "done" /\ outcome[r] = "not_ready"
  /\ Len(comments[EventPR]) = 1
  /\ Cardinality(markerComments(EventPR)) = 1

\* C38: no comment is ever deleted, and the only comment whose body is ever
\* replaced is one that carries the status marker, by the status-comment
\* variant: notification comments and every other comment stay as created
C38_OnlyTheStatusCommentIsUpdated ==
  [][\A p \in PRs :
       /\ Len(comments'[p]) >= Len(comments[p])
       /\ \A i \in DOMAIN comments[p] :
            comments'[p][i] # comments[p][i] =>
              /\ variant = "status_comment"
              /\ Includes(comments[p][i], STATUS_COMMENT_MARKER)
              /\ Includes(comments'[p][i], STATUS_COMMENT_MARKER)]_vars

C38_Witness ==
  /\ variant = "status_comment" /\ ~overlap
  /\ Len(comments[EventPR]) = 2
  /\ comments[EventPR][2] = renderMessage(notificationTemplate, authorLogin(EventPR))
  /\ Includes(comments[EventPR][1], STATUS_COMMENT_MARKER)
  /\ Includes(comments[EventPR][1], "[failed]")
  /\ \A r \in Runs : pc[r] = "done"

(***************************************************************************)
(* Agreement of the variants on one list of relevant checks.               *)
(***************************************************************************)
\* C39: on the same list of relevant checks the variants compute the same
\* allCompleted and the same allPassed: the polling variant, the two
\* partitioning variants and, for allPassed, the single-shot variant
C39_VariantsAgree ==
  \A r \in Runs :
    HasVerdict(r) =>
      LET rel == evaluated[r]
          viaPartition == getCurrentStatus(rel, <<>>)
          viaPolling == checkStatusPolling(rel, <<>>)
          viaPollLoop == checkStatus(rel, <<>>)
          viaSingleShot == allPassedSingleShot(rel, <<>>)
      IN  /\ viaPolling.allCompleted = viaPartition.allCompleted
          /\ viaPollLoop.allCompleted = viaPartition.allCompleted
          /\ viaPolling.allPassed = viaPartition.allPassed
          /\ viaPollLoop.allPassed = viaPartition.allPassed
          /\ viaSingleShot = viaPartition.allPassed
          /\ status[r].allPassed = viaPartition.allPassed
          /\ variant # "single_shot" =>
               status[r].allCompleted = viaPartition.allCompleted

C39_Witness ==
  \E r \in Runs :
    /\ HasVerdict(r) /\ variant = "single_shot"
    /\ evaluated[r] = <<StatusCheck("ci/status", "success"),
                        CheckRun("Lint", "queued", "success")>>
    /\ ~status[r].allPassed

(***************************************************************************)
(* The session store on its own (src/src/notificationStore.js).            *)
(***************************************************************************)
\* PR numbers and messages the store is called with
StorePRs == {1, 12}
StoreMessages == {"x", "-x", "2-x", "Test message"}

\* notificationStore.addNotification(p, m)
AddNotification(p, m) ==
  /\ notifications' = storeAddNotification(notifications, p, m)
  /\ recorded' = recorded \cup {<<p, m>>}
  /\ lastCall' = [op |-> "addNotification", p |-> p, m |-> m]
  /\ UNCHANGED <<comments, checks, runVars, pulls, sentInProcess>>

\* notificationStore.hasNotification(p, m)
HasNotification(p, m) ==
  /\ lastCall' = [op |-> "hasNotification", p |-> p, m |-> m,
                  answer |-> storeHasNotification(notifications, p, m)]
  /\ UNCHANGED <<comments, checks, runVars, pulls, notifications, recorded,
                 sentInProcess>>

StoreNext ==
  \/ \E p \in StorePRs, m \in StoreMessages : AddNotification(p, m)
  \/ \E p \in StorePRs, m \in StoreMessages : HasNotification(p, m)

SpecStore == InitDedup /\ [][StoreNext]_vars

\* C40: hasNotification(p, m) answers true exactly when addNotification(p, m)
\* was called before with that PR number and that message; addNotification
\* adds its own pair, adds nothing twice, removes nothing and changes the
\* answer of no other pair, so distinct pairs have distinct keys
C40_StoreRemembersExactlyWhatWasAdded ==
  [][/\ \A p \in StorePRs, m \in StoreMessages :
          storeHasNotification(notifications, p, m) <=> <<p, m>> \in recorded
     /\ Cardinality(notifications) = Cardinality(recorded)
     /\ lastCall.op = "hasNotification" =>
          (lastCall.answer <=> <<lastCall.p, lastCall.m>> \in recorded)
     /\ notifications \subseteq notifications'
     /\ lastCall'.op = "addNotification" =>
          /\ storeHasNotification(notifications', lastCall'.p, lastCall'.m)
          /\ storeHasNotification(notifications, lastCall'.p, lastCall'.m)
               => notifications' = notifications
          /\ \A q \in StorePRs, n \in StoreMessages :
               <<q, n>> # <<lastCall'.p, lastCall'.m>> =>
                 (storeHasNotification(notifications', q, n)
                    <=> storeHasNotification(notifications, q, n))]_vars

C40_Witness ==
  /\ {<<1, "2-x">>, <<12, "x">>} \subseteq recorded
  /\ <<12, "-x">> \notin recorded
  /\ lastCall = [op |-> "hasNotification", p |-> 12, m |-> "-x", answer |-> FALSE]
  /\ Cardinality(notifications) = 2

=============================================================================
